---- MODULE Spec2Model ----
(***************************************************************************)
(* Model of crates/collab/src/auth.rs: the validate_header middleware, its *)
(* helpers is_valid_github_login, get_or_create_user_for_trusted_login and *)
(* synthetic_github_user_id, run by several concurrent requests against a  *)
(* shared user table and an external authority.                            *)
(*                                                                         *)
(* A string is a sequence of characters; a character is a one-letter       *)
(* string.  "\t" stands for the tab and "x80" for a byte outside ASCII.    *)
(***************************************************************************)
EXTENDS Integers, Sequences, FiniteSets, TLC

\* ------------------------------------------------------------------ bounds
NumRequests == 2
MaxFaults == 1

\* ------------------------------------------------------------- characters
UpperLetters == <<"A","B","C","D","E","F","G","H","I","J","K","L","M",
                  "N","O","P","Q","R","S","T","U","V","W","X","Y","Z">>
LowerLetters == <<"a","b","c","d","e","f","g","h","i","j","k","l","m",
                  "n","o","p","q","r","s","t","u","v","w","x","y","z">>
Digits == <<"0","1","2","3","4","5","6","7","8","9">>

Range(f) == {f[i] : i \in DOMAIN f}

IndexOf(seq, c) == CHOOSE i \in DOMAIN seq : seq[i] = c

IsAsciiUppercase(c) == c \in Range(UpperLetters)

IsAsciiDigit(c) == c \in Range(Digits)

IsAsciiAlphanumeric(c) ==
    c \in Range(UpperLetters) \cup Range(LowerLetters) \cup Range(Digits)

IsWhitespace(c) == c \in {" ", "\t"}

\* HeaderValue::to_str succeeds only on visible ASCII, space and tab.
IsVisibleAscii(c) == c # "x80"

CharToAsciiLowercase(c) ==
    IF IsAsciiUppercase(c) THEN LowerLetters[IndexOf(UpperLetters, c)] ELSE c

to_ascii_lowercase(s) == [i \in DOMAIN s |-> CharToAsciiLowercase(s[i])]

\* ---------------------------------------------------------------- options
None == [some |-> FALSE, val |-> <<>>]
Some(v) == [some |-> TRUE, val |-> v]

\* ---------------------------------------------------------- str functions
RECURSIVE SkipWhitespace(_)
SkipWhitespace(s) ==
    IF s = <<>> THEN <<>>
    ELSE IF IsWhitespace(Head(s)) THEN SkipWhitespace(Tail(s)) ELSE s

RECURSIVE TakeToken(_)
TakeToken(s) ==
    IF s = <<>> \/ IsWhitespace(Head(s)) THEN <<>>
    ELSE <<Head(s)>> \o TakeToken(Tail(s))

\* str::split_whitespace: the maximal runs of non-whitespace characters.
RECURSIVE split_whitespace(_)
split_whitespace(s) ==
    LET rest == SkipWhitespace(s)
        tok  == TakeToken(rest)
    IN  IF rest = <<>> THEN <<>>
        ELSE <<tok>> \o split_whitespace(SubSeq(rest, Len(tok) + 1, Len(rest)))

\* str::trim
RECURSIVE TrimEnd(_)
TrimEnd(s) ==
    IF s = <<>> THEN <<>>
    ELSE IF IsWhitespace(s[Len(s)]) THEN TrimEnd(SubSeq(s, 1, Len(s) - 1)) ELSE s

trim(s) == TrimEnd(SkipWhitespace(s))

\* str::strip_prefix
strip_prefix(s, prefix) ==
    IF Len(s) >= Len(prefix) /\ SubSeq(s, 1, Len(prefix)) = prefix
    THEN Some(SubSeq(s, Len(prefix) + 1, Len(s)))
    ELSE None

\* ------------------------------------------------------ str::parse::<i32>
MaxI32 == 2147483647
MinI32 == (-2147483647) - 1

ParseErr == [ok |-> FALSE, val |-> 0]
ParseOk(n) == [ok |-> TRUE, val |-> n]

\* checked accumulation of the digits, adding for a positive number and
\* subtracting for a negative one, as core::num does
RECURSIVE ParseDigits(_, _, _)
ParseDigits(s, acc, positive) ==
    IF s = <<>> THEN ParseOk(acc)
    ELSE IF ~IsAsciiDigit(Head(s)) THEN ParseErr
    ELSE LET d == IndexOf(Digits, Head(s)) - 1
         IN  IF positive
             THEN IF acc > (MaxI32 - d) \div 10 THEN ParseErr
                  ELSE ParseDigits(Tail(s), acc * 10 + d, positive)
             ELSE IF acc < -214748364 THEN ParseErr
                  ELSE IF acc * 10 < MinI32 + d THEN ParseErr
                  ELSE ParseDigits(Tail(s), acc * 10 - d, positive)

parse_i32(s) ==
    IF s = <<>> THEN ParseErr
    ELSE IF Head(s) = "+" THEN
            (IF Tail(s) = <<>> THEN ParseErr ELSE ParseDigits(Tail(s), 0, TRUE))
    ELSE IF Head(s) = "-" THEN
            (IF Tail(s) = <<>> THEN ParseErr ELSE ParseDigits(Tail(s), 0, FALSE))
    ELSE ParseDigits(s, 0, TRUE)

\* ------------------------------------------------- is_valid_github_login
MaxLoginLen == 39

is_valid_github_login_OffByOne(github_login) ==
    IF Len(github_login) >= MaxLoginLen THEN FALSE
    ELSE IF github_login = <<>> THEN FALSE
    ELSE IF ~IsAsciiAlphanumeric(Head(github_login)) THEN FALSE
    ELSE \A i \in 2..Len(github_login) :
            IsAsciiAlphanumeric(github_login[i]) \/ github_login[i] = "-"

is_valid_github_login(github_login) ==
    IF Len(github_login) > MaxLoginLen THEN FALSE
    ELSE IF github_login = <<>> THEN FALSE
    ELSE IF ~IsAsciiAlphanumeric(Head(github_login)) THEN FALSE
    ELSE \A i \in 2..Len(github_login) :
            IsAsciiAlphanumeric(github_login[i]) \/ github_login[i] = "-"

\* ---------------------------------------------- synthetic_github_user_id
\* The first four bytes of the SHA-256 digest of the logins that requests
\* of this model can present (values of sha2::Sha256::digest).
Sha256First4(github_login) ==
    CASE github_login = <<"a">>      -> <<202, 151, 129, 18>>
      [] github_login = <<"A">>      -> <<85, 154, 234, 208>>
      [] github_login = <<"b">>      -> <<62, 35, 232, 22>>
      [] github_login = <<"c">>      -> <<46, 125, 44, 3>>
      [] github_login = <<"a", "b">> -> <<251, 142, 32, 252>>
      [] github_login = <<"a", "-">> -> <<155, 175, 68, 7>>
      [] github_login = <<"2">>      -> <<212, 115, 94, 58>>
      [] github_login = <<"2","1","4","7","4","8","3","6","4","8">>
                                     -> <<57, 248, 213, 129>>

\* i32::from_be_bytes: two's complement, most significant byte first
from_be_bytes(bytes) ==
    (IF bytes[1] >= 128 THEN bytes[1] - 256 ELSE bytes[1]) * 16777216
        + bytes[2] * 65536 + bytes[3] * 256 + bytes[4]

\* id & 0x7fff_ffff on a 32-bit two's complement value
ClearSignBit(id) == IF id < 0 THEN (id + MaxI32) + 1 ELSE id

IdOfDigest_NoZeroCheck(digest) ==
    ClearSignBit(from_be_bytes(SubSeq(digest, 1, 4)))

\* lines 167-170: the id made of the first four bytes of the digest
IdOfDigest(digest) ==
    LET bytes == SubSeq(digest, 1, 4)
        id == ClearSignBit(from_be_bytes(bytes))
    IN  IF id = 0 THEN 1 ELSE id

synthetic_github_user_id(github_login) ==
    IdOfDigest(Sha256First4(github_login))

\* ------------------------------------------------------------- user table
\* db::User rows.  The table assigns the primary key and rejects nothing:
\* an insert whose github_login is already present leaves the row as it is.
NoUser == [id |-> 0, github_login |-> <<>>, github_user_id |-> 0,
           admin |-> FALSE]

Bob == [id |-> 1, github_login |-> <<"b">>,
        github_user_id |-> 583231, admin |-> TRUE]

InitialUsers == {{}, {Bob}}

FirstFreeId == 2

get_user_by_id(rows, user_id) ==
    IF \E u \in rows : u.id = user_id
    THEN CHOOSE u \in rows : u.id = user_id
    ELSE NoUser

get_user_by_github_login(rows, github_login) ==
    IF \E u \in rows : u.github_login = github_login
    THEN CHOOSE u \in rows : u.github_login = github_login
    ELSE NoUser

\* returns the table afterwards and whether a row was inserted
create_user(rows, new_id, admin, github_login, github_user_id) ==
    IF \E u \in rows : u.github_login = github_login
    THEN [rows |-> rows, inserted |-> FALSE]
    ELSE [rows |-> rows \cup {[id |-> new_id, github_login |-> github_login,
                               github_user_id |-> github_user_id,
                               admin |-> admin]},
          inserted |-> TRUE]

\* ---------------------------------------------------------------- errors
\* Error::http(status, message), and the Error an anyhow::Error turns into
\* when `?` returns it from validate_header
NoError == [class |-> "", msg |-> ""]
HttpError(status, message) == [class |-> status, msg |-> message]
InternalError(message) == [class |-> "Internal", msg |-> message]

UNAUTHORIZED == "Unauthenticated"
BAD_REQUEST == "BadRequest"

\* ------------------------------------------------------------------ inputs
ADMIN_TOKEN_PREFIX == <<"A","D","M","I","N","_","T","O","K","E","N",":">>
DEV_SERVER_TOKEN ==
    <<"d","e","v","-","s","e","r","v","e","r","-","t","o","k","e","n">>

\* state.config.api_token
api_token == <<"s">>

ValidSecret == ADMIN_TOKEN_PREFIX \o api_token

\* <subject, secret> pairs that requests present
Credentials ==
    { <<<<"a">>, ValidSecret>>,
      <<<<"A">>, ValidSecret>>,
      <<<<"b">>, ValidSecret>>,
      <<<<"a">>, ADMIN_TOKEN_PREFIX \o <<"x">>>>,
      <<<<"a">>, ValidSecret \o <<"s">>>>,
      <<<<"a">>, ADMIN_TOKEN_PREFIX>>,
      <<<<"a">>, api_token>>,
      <<<<"A">>, <<"t">>>>,
      <<<<"-", "a">>, ValidSecret>>,
      <<<<"a", "_">>, ValidSecret>>,
      <<<<"1">>, <<"t">>>>,
      <<<<"2">>, ValidSecret>>,
      <<<<"2","1","4","7","4","8","3","6","4","8">>, ValidSecret>>,
      <<DEV_SERVER_TOKEN, ValidSecret>> }

\* The Authorization header of a request: absent, or a byte string.
Headers ==
    {None}
      \cup {Some(c[1] \o <<" ">> \o c[2]) : c \in Credentials}
      \cup {Some(<<"a">>), Some(<<"1">>), Some(DEV_SERVER_TOKEN), Some(<<>>),
            Some(<<"a", "x80">>),
            Some(<<"\t", "A", " ", " ">> \o ValidSecret \o <<" ", "z">>)}

\* what the authority can answer to GET /client/users/me
SendResults == {"network_error", "status_error", "status_ok"}
AssertedIds == {1, 2, 3}
\* response.json::<GetAuthenticatedUserResponse>(): an error, or user.id
JsonErr == [ok |-> FALSE, id |-> 0]
JsonOk(id) == [ok |-> TRUE, id |-> id]
ResponseBodies == {JsonErr} \cup {JsonOk(id) : id \in AssertedIds}

\* ------------------------------------------------------------------- state
Requests == 1..NumRequests

VARIABLES
    req,        \* per request: position in validate_header, its locals, and
                \* a record of the calls it has made
    users,      \* the rows of the user table
    next_id,    \* the primary key the table gives to its next row
    db_logins,  \* every github_login handed to the user table so far
    faults,     \* failed database calls so far
    probe       \* the last call of a pure function: its argument and result

vars == <<req, users, next_id, db_logins, faults, probe>>

IdleRequest ==
    [pc |-> "idle", header |-> None, first |-> <<>>, access_token |-> <<>>,
     github_login |-> <<>>, claimed_id |-> 0, asserted_id |-> 0,
     principal |-> NoUser, error |-> NoError, next_runs |-> 0,
     authority |-> "", http_calls |-> 0, db_reads |-> 0, db_writes |-> 0, db_failed |-> FALSE,
     after |-> {}]

NoProbe ==
    [fn |-> "", text |-> <<>>, bytes |-> <<>>, flag |-> FALSE, id |-> 0,
     out |-> <<>>, again |-> <<>>]

Init ==
    /\ req = [r \in Requests |-> IdleRequest]
    /\ users \in InitialUsers
    /\ next_id = FirstFreeId
    /\ db_logins = {}
    /\ faults = 0
    /\ probe = NoProbe

\* ------------------------------------------- validate_header, lines 23-116
\* header.to_str().ok()
to_str(header) ==
    IF header.some /\ \A i \in DOMAIN header.val : IsVisibleAscii(header.val[i])
    THEN header
    ELSE None

IsAdminToken_StartsWith(access_token) ==
    LET admin_token == strip_prefix(access_token, ADMIN_TOKEN_PREFIX)
    IN  IF ~admin_token.some THEN FALSE
        ELSE strip_prefix(admin_token.val, api_token).some

\* lines 104-116: the token is ADMIN_TOKEN:<config.api_token>
IsAdminToken(access_token) ==
    LET admin_token == strip_prefix(access_token, ADMIN_TOKEN_PREFIX)
    IN  IF ~admin_token.some THEN FALSE
        ELSE IF api_token # admin_token.val THEN FALSE
        ELSE TRUE

Return_RunsNext(r, error) ==
    [r EXCEPT !.pc = "next_run", !.error = error]

\* `return Err(error)` and `Err(error)?`
Return(r, error) ==
    [r EXCEPT !.pc = "done", !.error = error]

LowercaseLogin_Skipped(github_login) == github_login

\* line 96
LowercaseLogin(github_login) == to_ascii_lowercase(github_login)

LoginBranch_StoresUnlowered(r) ==
    LET github_login == trim(r.first)
        lowered == LowercaseLogin(github_login)
    IN  IF github_login = <<>>
        THEN Return(r, HttpError(BAD_REQUEST,
                                 "missing user id in authorization header"))
        ELSE IF ~is_valid_github_login(lowered)
        THEN Return(r, HttpError(BAD_REQUEST,
                                 "invalid github login in authorization header"))
        ELSE IF ~IsAdminToken(r.access_token)
        THEN Return(r, HttpError(UNAUTHORIZED, "invalid credentials"))
        ELSE [r EXCEPT !.pc = "get_user_by_github_login",
                       !.github_login = github_login]

LoginBranch_DistinctMessages(r) ==
    LET github_login == trim(r.first)
        lowered == LowercaseLogin(github_login)
    IN  IF github_login = <<>>
        THEN Return(r, HttpError(BAD_REQUEST,
                                 "missing user id in authorization header"))
        ELSE IF ~is_valid_github_login(lowered)
        THEN Return(r, HttpError(BAD_REQUEST,
                                 "invalid github login in authorization header"))
        ELSE IF ~strip_prefix(r.access_token, ADMIN_TOKEN_PREFIX).some
        THEN Return(r, HttpError(UNAUTHORIZED, "missing admin token prefix"))
        ELSE IF ~IsAdminToken(r.access_token)
        THEN Return(r, HttpError(UNAUTHORIZED, "invalid credentials"))
        ELSE [r EXCEPT !.pc = "get_user_by_github_login",
                       !.github_login = lowered]

\* lines 88-118: the request carries a github login
LoginBranch(r) ==
    LET github_login == trim(r.first)
        lowered == LowercaseLogin(github_login)
    IN  IF github_login = <<>>
        THEN Return(r, HttpError(BAD_REQUEST,
                                 "missing user id in authorization header"))
        ELSE IF ~is_valid_github_login(lowered)
        THEN Return(r, HttpError(BAD_REQUEST,
                                 "invalid github login in authorization header"))
        ELSE IF ~IsAdminToken(r.access_token)
        THEN Return(r, HttpError(UNAUTHORIZED, "invalid credentials"))
        ELSE [r EXCEPT !.pc = "get_user_by_github_login",
                       !.github_login = lowered]

\* lines 52-60: the request carries a user id; the GET is sent
UserIdBranch(r, user_id) ==
    [r EXCEPT !.pc = "send", !.claimed_id = user_id,
              !.http_calls = @ + 1]

ParseHeader_TokenCheckFirst(r) ==
    LET text == to_str(r.header)
    IN  IF ~text.some
        THEN Return(r, HttpError(UNAUTHORIZED, "missing authorization header"))
        ELSE
        LET auth_header == split_whitespace(text.val)
            first == IF Len(auth_header) >= 1 THEN auth_header[1] ELSE <<>>
            r1 == [r EXCEPT !.first = first]
        IN  IF Len(auth_header) < 2
            THEN Return(r1, HttpError(BAD_REQUEST,
                   "missing access token in authorization header"))
            ELSE IF first = DEV_SERVER_TOKEN
            THEN Return(r1, HttpError(UNAUTHORIZED,
                   "Dev servers were removed in Zed 0.157 please upgrade to SSH remoting"))
            ELSE
            LET r2 == [r1 EXCEPT !.access_token = auth_header[2]]
                user_id == parse_i32(first)
            IN  IF user_id.ok THEN UserIdBranch(r2, user_id.val)
                ELSE LoginBranch(r2)

ParseHeader_DefaultsToken(r) ==
    LET text == to_str(r.header)
    IN  IF ~text.some
        THEN Return(r, HttpError(UNAUTHORIZED, "missing authorization header"))
        ELSE
        LET auth_header == split_whitespace(text.val)
            first == IF Len(auth_header) >= 1 THEN auth_header[1] ELSE <<>>
            r1 == [r EXCEPT !.first = first]
        IN  IF first = DEV_SERVER_TOKEN
            THEN Return(r1, HttpError(UNAUTHORIZED,
                   "Dev servers were removed in Zed 0.157 please upgrade to SSH remoting"))
            ELSE
            LET r2 == [r1 EXCEPT !.access_token =
                          IF Len(auth_header) < 2 THEN <<>> ELSE auth_header[2]]
                user_id == parse_i32(first)
            IN  IF user_id.ok THEN UserIdBranch(r2, user_id.val)
                ELSE LoginBranch(r2)

ParseHeader_AdminTokenFirst(r) ==
    LET text == to_str(r.header)
    IN  IF ~text.some
        THEN Return(r, HttpError(UNAUTHORIZED, "missing authorization header"))
        ELSE
        LET auth_header == split_whitespace(text.val)
            first == IF Len(auth_header) >= 1 THEN auth_header[1] ELSE <<>>
            r1 == [r EXCEPT !.first = first]
        IN  IF first = DEV_SERVER_TOKEN
            THEN Return(r1, HttpError(UNAUTHORIZED,
                   "Dev servers were removed in Zed 0.157 please upgrade to SSH remoting"))
            ELSE IF Len(auth_header) < 2
            THEN Return(r1, HttpError(BAD_REQUEST,
                   "missing access token in authorization header"))
            ELSE
            LET r2 == [r1 EXCEPT !.access_token = auth_header[2]]
                user_id == parse_i32(first)
            IN  IF IsAdminToken(auth_header[2]) THEN LoginBranch(r2)
                ELSE IF user_id.ok THEN UserIdBranch(r2, user_id.val)
                ELSE LoginBranch(r2)

\* lines 23-52: everything up to the first await
ParseHeader(r) ==
    LET text == to_str(r.header)
    IN  IF ~text.some
        THEN Return(r, HttpError(UNAUTHORIZED, "missing authorization header"))
        ELSE
        LET auth_header == split_whitespace(text.val)
            first == IF Len(auth_header) >= 1 THEN auth_header[1] ELSE <<>>
            r1 == [r EXCEPT !.first = first]
        IN  IF first = DEV_SERVER_TOKEN
            THEN Return(r1, HttpError(UNAUTHORIZED,
                   "Dev servers were removed in Zed 0.157 please upgrade to SSH remoting"))
            ELSE IF Len(auth_header) < 2
            THEN Return(r1, HttpError(BAD_REQUEST,
                   "missing access token in authorization header"))
            ELSE
            LET r2 == [r1 EXCEPT !.access_token = auth_header[2]]
                user_id == parse_i32(first)
            IN  IF user_id.ok THEN UserIdBranch(r2, user_id.val)
                ELSE LoginBranch(r2)

Finished == {q \in Requests : req[q].pc = "done"}

\* A request arrives with its Authorization header and runs to its first
\* await.  Requests are numbered in the order they arrive.
Receive(r, header) ==
    /\ req[r].pc = "idle"
    /\ UNCHANGED probe
    /\ \A q \in Requests : q < r => req[q].pc # "idle"
    /\ LET r0 == [req[r] EXCEPT !.header = header, !.after = Finished]
           r1 == ParseHeader(r0)
       IN  /\ req' = [req EXCEPT ![r] = r1]
           /\ db_logins' = db_logins
    /\ UNCHANGED <<users, next_id, faults>>

\* ------------------------------------------ validate_header, lines 56-86
\* lines 78 and 119: req.extensions_mut().insert(Principal::User(user))
InsertPrincipal(r, user) ==
    [r EXCEPT !.principal = user, !.pc = "next_run"]

\* a database call that returned Err, propagated by `?`
DbError(r) ==
    [Return(r, InternalError("database error")) EXCEPT !.db_failed = TRUE]

SendReturned_NoStatusCheck(r, result) ==
    IF result = "network_error"
    THEN Return([r EXCEPT !.authority = "network_error"],
                InternalError("failed to validate access token"))
    ELSE IF result = "status_ok"
    THEN [r EXCEPT !.pc = "json"]
    ELSE [r EXCEPT !.pc = "json", !.authority = "status_error"]

SendReturned_Retries(r, result) ==
    IF result = "network_error"
    THEN [r EXCEPT !.http_calls = @ + 1]
    ELSE IF result = "status_ok"
    THEN [r EXCEPT !.pc = "json"]
    ELSE Return([r EXCEPT !.authority = "status_error"],
                HttpError(UNAUTHORIZED, "invalid credentials"))

\* lines 56-64 and 82-85: send().await and error_for_status()
SendReturned(r, result) ==
    IF result = "network_error"
    THEN Return([r EXCEPT !.authority = "network_error"],
                InternalError("failed to validate access token"))
    ELSE IF result = "status_ok"
    THEN [r EXCEPT !.pc = "json"]
    ELSE Return([r EXCEPT !.authority = "status_error"],
                HttpError(UNAUTHORIZED, "invalid credentials"))

Send(r, result) ==
    /\ req[r].pc = "send"
    /\ UNCHANGED probe
    /\ req' = [req EXCEPT ![r] = SendReturned(req[r], result)]
    /\ UNCHANGED <<users, next_id, db_logins, faults>>

JsonReturned_IgnoresParseError(r, response_body) ==
    IF ~response_body.ok
    THEN [r EXCEPT !.pc = "get_user_by_id", !.authority = "unparseable_body",
                   !.asserted_id = 0]
    ELSE [r EXCEPT !.pc = "get_user_by_id", !.authority = "verified",
                   !.asserted_id = response_body.id]

\* lines 65-70: the body is parsed and names the authenticated user
JsonReturned(r, response_body) ==
    IF ~response_body.ok
    THEN Return([r EXCEPT !.authority = "unparseable_body"],
                InternalError("failed to parse response body"))
    ELSE [r EXCEPT !.pc = "get_user_by_id", !.authority = "verified",
                   !.asserted_id = response_body.id]

Json(r, response_body) ==
    /\ req[r].pc = "json"
    /\ UNCHANGED probe
    /\ req' = [req EXCEPT ![r] = JsonReturned(req[r], response_body)]
    /\ UNCHANGED <<users, next_id, db_logins, faults>>

LookupUserId_Claimed(r) == r.claimed_id

\* line 70: the id looked up is the one in the response body
LookupUserId(r) == r.asserted_id

UserByIdReturned_IgnoresMissing(r, user) ==
    InsertPrincipal(r, user)

\* lines 72-78
UserByIdReturned(r, user) ==
    IF user = NoUser
    THEN Return(r, InternalError(
                     "user " \o ToString(LookupUserId(r)) \o " not found"))
    ELSE InsertPrincipal(r, user)

GetUserById(r, ok) ==
    /\ req[r].pc = "get_user_by_id"
    /\ UNCHANGED probe
    /\ ~ok => faults < MaxFaults
    /\ faults' = IF ok THEN faults ELSE faults + 1
    /\ LET r1 == [req[r] EXCEPT !.db_reads = @ + 1]
           user == get_user_by_id(users, LookupUserId(r1))
       IN  req' = [req EXCEPT ![r] = IF ok THEN UserByIdReturned(r1, user)
                                     ELSE DbError(r1)]
    /\ UNCHANGED <<users, next_id, db_logins>>

\* ------------------- get_or_create_user_for_trusted_login, lines 140-163
FirstLookupReturned_AlwaysCreates(r, user) ==
    [r EXCEPT !.pc = "create_user"]

\* lines 144-146
FirstLookupReturned(r, user) ==
    IF user # NoUser THEN InsertPrincipal(r, user)
    ELSE [r EXCEPT !.pc = "create_user"]

GetUserByGithubLogin(r, ok) ==
    /\ req[r].pc = "get_user_by_github_login"
    /\ UNCHANGED probe
    /\ ~ok => faults < MaxFaults
    /\ faults' = IF ok THEN faults ELSE faults + 1
    /\ db_logins' = db_logins \cup {req[r].github_login}
    /\ LET r1 == [req[r] EXCEPT !.db_reads = @ + 1]
           user == get_user_by_github_login(users, r1.github_login)
       IN  req' = [req EXCEPT ![r] = IF ok THEN FirstLookupReturned(r1, user)
                                     ELSE DbError(r1)]
    /\ UNCHANGED <<users, next_id>>

CreateReturned_ConflictIsError(r, result) ==
    IF result.inserted THEN [r EXCEPT !.pc = "get_user_after_create"]
    ELSE Return(r, InternalError("user already exists"))

\* lines 148-157: the NewUserResult is dropped, only an Err returns
CreateReturned(r, result) ==
    [r EXCEPT !.pc = "get_user_after_create"]

CreateUser_AsAdmin(r, ok) ==
    /\ req[r].pc = "create_user"
    /\ UNCHANGED probe
    /\ ~ok => faults < MaxFaults
    /\ faults' = IF ok THEN faults ELSE faults + 1
    /\ db_logins' = db_logins \cup {req[r].github_login}
    /\ LET r1 == [req[r] EXCEPT !.db_writes = @ + 1]
           result == create_user(users, next_id, TRUE, r1.github_login,
                                 synthetic_github_user_id(r1.github_login))
       IN  IF ok
           THEN /\ users' = result.rows
                /\ next_id' = IF result.inserted THEN next_id + 1 ELSE next_id
                /\ req' = [req EXCEPT ![r] = CreateReturned(r1, result)]
           ELSE /\ UNCHANGED <<users, next_id>>
                /\ req' = [req EXCEPT ![r] = DbError(r1)]

CreateUser(r, ok) ==
    /\ req[r].pc = "create_user"
    /\ UNCHANGED probe
    /\ ~ok => faults < MaxFaults
    /\ faults' = IF ok THEN faults ELSE faults + 1
    /\ db_logins' = db_logins \cup {req[r].github_login}
    /\ LET r1 == [req[r] EXCEPT !.db_writes = @ + 1]
           result == create_user(users, next_id, FALSE, r1.github_login,
                                 synthetic_github_user_id(r1.github_login))
       IN  IF ok
           THEN /\ users' = result.rows
                /\ next_id' = IF result.inserted THEN next_id + 1 ELSE next_id
                /\ req' = [req EXCEPT ![r] = CreateReturned(r1, result)]
           ELSE /\ UNCHANGED <<users, next_id>>
                /\ req' = [req EXCEPT ![r] = DbError(r1)]

\* lines 159-162
SecondLookupReturned_Retries(r, user) ==
    IF user = NoUser \/ r.db_writes < 2
    THEN [r EXCEPT !.pc = "create_user"]
    ELSE InsertPrincipal(r, user)

SecondLookupReturned(r, user) ==
    IF user = NoUser
    THEN Return(r, InternalError("user not found after create"))
    ELSE InsertPrincipal(r, user)

GetUserAfterCreate(r, ok) ==
    /\ req[r].pc = "get_user_after_create"
    /\ UNCHANGED probe
    /\ ~ok => faults < MaxFaults
    /\ faults' = IF ok THEN faults ELSE faults + 1
    /\ db_logins' = db_logins \cup {req[r].github_login}
    /\ LET r1 == [req[r] EXCEPT !.db_reads = @ + 1]
           user == get_user_by_github_login(users, r1.github_login)
       IN  req' = [req EXCEPT ![r] = IF ok THEN SecondLookupReturned(r1, user)
                                     ELSE DbError(r1)]
    /\ UNCHANGED <<users, next_id>>

\* lines 79 and 120: next.run(req).await
NextRun(r) ==
    /\ req[r].pc = "next_run"
    /\ UNCHANGED probe
    /\ req' = [req EXCEPT ![r] = [@ EXCEPT !.pc = "done", !.next_runs = @ + 1]]
    /\ UNCHANGED <<users, next_id, db_logins, faults>>

Next ==
    \/ \E r \in Requests, header \in Headers : Receive(r, header)
    \/ \E r \in Requests, result \in SendResults : Send(r, result)
    \/ \E r \in Requests, response_body \in ResponseBodies :
          Json(r, response_body)
    \/ \E r \in Requests, ok \in BOOLEAN : GetUserById(r, ok)
    \/ \E r \in Requests, ok \in BOOLEAN : GetUserByGithubLogin(r, ok)
    \/ \E r \in Requests, ok \in BOOLEAN : CreateUser(r, ok)
    \/ \E r \in Requests, ok \in BOOLEAN : GetUserAfterCreate(r, ok)
    \/ \E r \in Requests : NextRun(r)

Spec == Init /\ [][Next]_vars

\* every call a request awaits returns: the steps of a request that has
\* arrived
Resume(r) ==
    \/ \E result \in SendResults : Send(r, result)
    \/ \E response_body \in ResponseBodies : Json(r, response_body)
    \/ \E ok \in BOOLEAN : GetUserById(r, ok)
    \/ \E ok \in BOOLEAN : GetUserByGithubLogin(r, ok)
    \/ \E ok \in BOOLEAN : CreateUser(r, ok)
    \/ \E ok \in BOOLEAN : GetUserAfterCreate(r, ok)
    \/ NextRun(r)

\* one header for each way through validate_header
FairHeaders ==
    { None,
      Some(<<"1", " ", "t">>),
      Some(<<"a", " ">> \o ValidSecret),
      Some(<<"A", " ">> \o ValidSecret),
      Some(<<"a", " ">> \o api_token) }

FairNext ==
    \/ \E r \in Requests, header \in FairHeaders : Receive(r, header)
    \/ \E r \in Requests : Resume(r)

FairSpec ==
    Init /\ [][FairNext]_vars /\ \A r \in Requests : WF_vars(Resume(r))

\* ------------------------- edit_prediction/src/llama_cpp.rs, lines 265-292
\* lines 268-283
end_tokens ==
    << <<"<","|","e","n","d","o","f","t","e","x","t","|",">">>,
       <<"<","|","f","i","l","e","_","s","e","p","a","r","a","t","o","r","|",">">>,
       <<"<","|","f","i","m","_","p","a","d","|",">">>,
       <<"<","|","f","i","m","_","p","r","e","f","i","x","|",">">>,
       <<"<","|","f","i","m","_","m","i","d","d","l","e","|",">">>,
       <<"<","|","f","i","m","_","s","u","f","f","i","x","|",">">>,
       <<"<","f","i","m","_","p","r","e","f","i","x",">">>,
       <<"<","f","i","m","_","m","i","d","d","l","e",">">>,
       <<"<","f","i","m","_","s","u","f","f","i","x",">">>,
       <<"<","P","R","E",">">>,
       <<"<","S","U","F",">">>,
       <<"<","M","I","D",">">>,
       <<"[","P","R","E","F","I","X","]">>,
       <<"[","S","U","F","F","I","X","]">> >>

NoPosition == [some |-> FALSE, pos |-> 0]

find_Last(s, pattern) ==
    LET hits == {i \in 0..(Len(s) - Len(pattern)) :
                    SubSeq(s, i + 1, i + Len(pattern)) = pattern}
    IN  IF hits = {} THEN NoPosition
        ELSE [some |-> TRUE,
              pos |-> CHOOSE i \in hits : \A j \in hits : j <= i]

\* str::find: the offset of the first match of the pattern
find(s, pattern) ==
    LET hits == {i \in 0..(Len(s) - Len(pattern)) :
                    SubSeq(s, i + 1, i + Len(pattern)) = pattern}
    IN  IF hits = {} THEN NoPosition
        ELSE [some |-> TRUE,
              pos |-> CHOOSE i \in hits : \A j \in hits : i <= j]

\* String::truncate
truncate(s, new_len) == SubSeq(s, 1, new_len)

\* lines 285-289: the loop over end_tokens, from the i-th token on
RECURSIVE CleanLoop(_, _)
CleanLoop(result, i) ==
    IF i > Len(end_tokens) THEN result
    ELSE LET position == find(result, end_tokens[i])
         IN  CleanLoop(IF position.some THEN truncate(result, position.pos)
                       ELSE result,
                       i + 1)

clean_completion(response) == CleanLoop(response, 1)

\* ------------------------------------------- calls of the pure functions
MaxShortLen == 2
MaxSegments == 3

LoginChars == {"a", "Z", "7", "-", "_", " "}

RECURSIVE StringsOver(_, _)
StringsOver(chars, n) ==
    IF n = 0 THEN {<<>>}
    ELSE LET shorter == StringsOver(chars, n - 1)
         IN  shorter \cup {<<c>> \o s : c \in chars,
                           s \in {t \in shorter : Len(t) = n - 1}}

\* a string of the given length: a first and a last character around "a"s
Padded(first, len, last) ==
    [i \in 1..len |-> IF i = 1 THEN first ELSE IF i = len THEN last ELSE "a"]

\* short strings, and strings around the length limit
LoginInputs ==
    StringsOver(LoginChars, MaxShortLen)
      \cup {Padded(first, len, last) :
              first \in LoginChars, last \in LoginChars,
              len \in (MaxLoginLen - 1)..(MaxLoginLen + 2)}

ByteSamples == {0, 1, 127, 128, 255}

\* digests, cut after the fifth byte
DigestInputs ==
    {<<b1, b2, b3, b4, b5>> :
        b1 \in ByteSamples, b2 \in ByteSamples, b3 \in ByteSamples,
        b4 \in ByteSamples, b5 \in {0}}
      \cup {Sha256First4(login) \o <<0>> : login \in {<<"a">>, <<"b">>}}

\* model output: pieces of text and of end tokens
Segments ==
    { <<"x">>,
      <<"<">>,
      <<"<","P","R","E",">">>,
      <<"[","S","U","F","F","I","X","]">>,
      <<"<","|","f","i","m","_","p","a","d","|",">">>,
      <<"<","f","i","m","_","m","i","d","d","l","e",">">>,
      <<"<","P","R">>,
      <<"E",">">> }

RECURSIVE Concatenations(_)
Concatenations(n) ==
    IF n = 0 THEN {<<>>}
    ELSE LET shorter == Concatenations(n - 1)
         IN  shorter \cup {seg \o s : seg \in Segments, s \in shorter}

CompletionInputs == Concatenations(MaxSegments)

PureInit ==
    /\ req = [r \in Requests |-> IdleRequest]
    /\ users = {}
    /\ next_id = FirstFreeId
    /\ db_logins = {}
    /\ faults = 0
    /\ probe = NoProbe

\* each behaviour makes one call
ValidateLogin(github_login) ==
    /\ probe = NoProbe
    /\ probe' = [NoProbe EXCEPT !.fn = "is_valid_github_login",
                                !.text = github_login,
                                !.flag = is_valid_github_login(github_login)]
    /\ UNCHANGED <<req, users, next_id, db_logins, faults>>

SyntheticId(digest) ==
    /\ probe = NoProbe
    /\ probe' = [NoProbe EXCEPT !.fn = "synthetic_github_user_id",
                                !.bytes = digest,
                                !.id = IdOfDigest(digest)]
    /\ UNCHANGED <<req, users, next_id, db_logins, faults>>

CleanCompletion(text) ==
    /\ probe = NoProbe
    /\ \E out \in {clean_completion(text)} :
          probe' = [NoProbe EXCEPT !.fn = "clean_completion",
                                   !.text = text,
                                   !.out = out,
                                   !.again = clean_completion(out)]
    /\ UNCHANGED <<req, users, next_id, db_logins, faults>>

PureNext ==
    \/ \E github_login \in LoginInputs : ValidateLogin(github_login)
    \/ \E digest \in DigestInputs : SyntheticId(digest)
    \/ \E text \in CompletionInputs : CleanCompletion(text)

PureSpec == PureInit /\ [][PureNext]_vars

\* ---------------------------------------------------------------- claims
Done(r) == req[r].pc = "done"
Succeeded(r) == Done(r) /\ req[r].error = NoError
Rejected(r) == Done(r) /\ req[r].error # NoError

InvalidCredentials == HttpError(UNAUTHORIZED, "invalid credentials")

\* request r has presented the github login `login`, in any letter case
PresentsLogin(r, login) ==
    /\ req[r].pc # "idle"
    /\ req[r].access_token # <<>>
    /\ ~parse_i32(req[r].first).ok
    /\ to_ascii_lowercase(req[r].first) = login
    /\ is_valid_github_login(login)

HasSharedSecret(r) ==
    req[r].access_token = ADMIN_TOKEN_PREFIX \o api_token

\* request r has presented `login` together with ADMIN_TOKEN:<api_token>
Trusted(r, login) == PresentsLogin(r, login) /\ HasSharedSecret(r)

Logins == {to_ascii_lowercase(c[1]) : c \in Credentials}

RowsOf(login) == {u \in users : u.github_login = login}

Concurrent(r1, r2) == r1 \notin req[r2].after /\ r2 \notin req[r1].after

\* C1: requests that present the same login with the valid shared secret
\* while the others are in flight all end in success with the same user as
\* their principal, however their lookups and creates interleave; the only
\* such request that is rejected is one whose own database call failed.
C1_ConcurrentBootstrap ==
    \A r1, r2 \in Requests : \A login \in Logins :
        ( /\ r1 # r2
          /\ Concurrent(r1, r2)
          /\ Trusted(r1, login) /\ Trusted(r2, login)
          /\ Done(r1) /\ Done(r2) )
        => /\ ~req[r1].db_failed => Succeeded(r1)
           /\ (Succeeded(r1) /\ Succeeded(r2))
                 => /\ req[r1].principal = req[r2].principal
                    /\ req[r1].principal.github_login = login
                    /\ RowsOf(login) = {req[r1].principal}

\* two requests raced through lookup and create for one new login
C1_Witness ==
    \E r1, r2 \in Requests :
        /\ r1 # r2
        /\ Trusted(r1, <<"a">>) /\ Trusted(r2, <<"a">>)
        /\ req[r1].db_writes = 1 /\ req[r2].db_writes = 1
        /\ Succeeded(r1) /\ Succeeded(r2)
        /\ req[r1].principal = req[r2].principal

\* C2: the user table never holds two rows whose github logins are equal
\* after lowercasing.
C2_OneUserPerLogin ==
    \A u1, u2 \in users :
        to_ascii_lowercase(u1.github_login) = to_ascii_lowercase(u2.github_login)
            => u1 = u2

\* requests presenting "A" and "a" both went through create
C2_Witness ==
    \E r1, r2 \in Requests :
        /\ req[r1].first = <<"A">> /\ req[r2].first = <<"a">>
        /\ req[r1].db_writes = 1 /\ req[r2].db_writes = 1
        /\ Done(r1) /\ Done(r2)
        /\ Cardinality(RowsOf(<<"a">>)) = 1

\* C3: when a request with a login and the valid shared secret starts after
\* an earlier such request for the same login has finished, and no database
\* call of either failed, both succeed with the same user id, the later one
\* makes no create call, and the table holds exactly one row for the login.
C3_SequentialIdempotent ==
    \A r1, r2 \in Requests : \A login \in Logins :
        ( /\ r1 \in req[r2].after
          /\ Trusted(r1, login) /\ Trusted(r2, login)
          /\ Done(r2)
          /\ ~req[r1].db_failed /\ ~req[r2].db_failed )
        => /\ Succeeded(r1) /\ Succeeded(r2)
           /\ req[r1].principal.id = req[r2].principal.id
           /\ req[r2].db_writes = 0
           /\ Cardinality(RowsOf(login)) = 1

\* the first request created the row, the second one came after and is done
C3_Witness ==
    \E r1, r2 \in Requests :
        /\ r1 \in req[r2].after
        /\ Trusted(r1, <<"a">>) /\ Trusted(r2, <<"a">>)
        /\ req[r1].db_writes = 1
        /\ Succeeded(r1) /\ Succeeded(r2)

OnUserIdPath(r) == req[r].pc # "idle" /\ req[r].http_calls > 0

\* C4: a principal attached on the user-id path is the user whose id is the
\* one in the authority's response body, also when the id in the header is
\* another one.
C4_TrustsAssertedId ==
    \A r \in Requests :
        (OnUserIdPath(r) /\ req[r].principal # NoUser)
            => /\ req[r].authority = "verified"
               /\ req[r].principal.id = req[r].asserted_id
               /\ req[r].principal \in users

\* verified with an asserted id that differs from the claimed one
C4_Witness ==
    \E r \in Requests :
        /\ Succeeded(r)
        /\ OnUserIdPath(r)
        /\ req[r].claimed_id # req[r].asserted_id
        /\ req[r].principal.id = req[r].asserted_id

VerificationFailures == {"status_error", "network_error", "unparseable_body"}

C6_PrincipalBeforeNext ==
    \A r \in Requests :
        /\ req[r].next_runs <= 1
        /\ req[r].next_runs = 1 => req[r].principal # NoUser
        /\ req[r].pc = "next_run" => req[r].principal # NoUser
        /\ Succeeded(r) => (req[r].next_runs = 1 /\ req[r].principal # NoUser)
        /\ Rejected(r) => (req[r].next_runs = 0 /\ req[r].principal = NoUser)

\* one request went through to the next layer, another was rejected
C6_Witness ==
    \E r1, r2 \in Requests :
        /\ Succeeded(r1) /\ req[r1].next_runs = 1
        /\ Rejected(r2) /\ req[r2].next_runs = 0

OnLoginPath(r) ==
    /\ req[r].pc # "idle"
    /\ req[r].access_token # <<>>
    /\ ~parse_i32(req[r].first).ok

TouchedStore(r) == req[r].db_reads + req[r].db_writes > 0

C8_RejectionLeavesStore ==
    /\ [](\A r \in Requests :
            req[r].authority = "status_error"
                => /\ req[r].error = InvalidCredentials
                   /\ Done(r)
                   /\ ~TouchedStore(r))
    /\ [][\A r \in Requests :
            (req[r].pc = "send" /\ req'[r].authority = "status_error")
                => /\ users' = users
                   /\ next_id' = next_id
                   /\ db_logins' = db_logins]_vars

\* the authority turned a request away while the table had a row
C8_Witness ==
    \E r \in Requests :
        /\ req[r].authority = "status_error"
        /\ Rejected(r)
        /\ users # {}

HasUppercase(s) == \E i \in DOMAIN s : IsAsciiUppercase(s[i])

\* C9: requests with the valid secret whose logins differ only in letter
\* case get the same user as principal, and every login handed to the user
\* table is the lowercased login of the request and has no uppercase letter.
C9_CaseInsensitiveLogin ==
    /\ \A r1, r2 \in Requests :
          ( /\ Succeeded(r1) /\ Succeeded(r2)
            /\ OnLoginPath(r1) /\ OnLoginPath(r2)
            /\ to_ascii_lowercase(req[r1].first)
                 = to_ascii_lowercase(req[r2].first) )
          => req[r1].principal = req[r2].principal
    /\ \A login \in db_logins : ~HasUppercase(login)
    /\ \A r \in Requests :
          (OnLoginPath(r) /\ TouchedStore(r))
              => /\ req[r].github_login = to_ascii_lowercase(req[r].first)
                 /\ req[r].github_login \in db_logins

\* "A" and "a" resolved to one user
C9_Witness ==
    \E r1, r2 \in Requests :
        /\ req[r1].first = <<"A">> /\ req[r2].first = <<"a">>
        /\ Succeeded(r1) /\ Succeeded(r2)
        /\ req[r1].principal = req[r2].principal
        /\ req[r1].principal.github_login = <<"a">>

\* the request was turned away for its credential: a login with a wrong
\* token, or a user id that the authority or the user table did not accept
CredentialFailed(r) ==
    /\ Rejected(r)
    /\ ~req[r].db_failed
    /\ \/ OnUserIdPath(r)
       \/ /\ OnLoginPath(r)
          /\ is_valid_github_login(to_ascii_lowercase(req[r].first))
          /\ ~HasSharedSecret(r)

HeaderTokens(r) ==
    IF req[r].pc # "idle" /\ to_str(req[r].header).some
    THEN split_whitespace(req[r].header.val)
    ELSE <<>>

DevServerRemoved ==
    HttpError(UNAUTHORIZED,
        "Dev servers were removed in Zed 0.157 please upgrade to SSH remoting")

MissingAccessToken ==
    HttpError(BAD_REQUEST, "missing access token in authorization header")

\* C12: a header whose first token is "dev-server-token" is rejected as
\* Unauthenticated with the dev-server removal message whatever follows it,
\* nothing or the valid shared secret included, and the request calls
\* neither the authority nor the user table.
C12_DevServerTokenRejected ==
    \A r \in Requests :
        (Len(HeaderTokens(r)) >= 1 /\ HeaderTokens(r)[1] = DEV_SERVER_TOKEN)
            => /\ Rejected(r)
               /\ req[r].error = DevServerRemoved
               /\ req[r].http_calls = 0
               /\ ~TouchedStore(r)
               /\ req[r].principal = NoUser

\* one dev-server-token header without a secret, one with the valid secret
C12_Witness ==
    \E r1, r2 \in Requests :
        /\ HeaderTokens(r1) = <<DEV_SERVER_TOKEN>>
        /\ HeaderTokens(r2) = <<DEV_SERVER_TOKEN, ValidSecret>>
        /\ req[r1].error = DevServerRemoved
        /\ req[r2].error = DevServerRemoved

\* C13 as stated: every header with a subject token and no secret token is
\* rejected as BadRequest, missing access token.
C13_Original ==
    \A r \in Requests :
        Len(HeaderTokens(r)) = 1
            => (Rejected(r) /\ req[r].error = MissingAccessToken)

\* C13, amended: every header with a subject token other than
\* "dev-server-token" and no secret token is rejected as BadRequest, missing
\* access token, a numeric subject included; "dev-server-token" alone gets
\* the Unauthenticated dev-server removal rejection.
C13_MissingToken ==
    \A r \in Requests :
        Len(HeaderTokens(r)) = 1
            => /\ Rejected(r)
               /\ req[r].http_calls = 0
               /\ ~TouchedStore(r)
               /\ req[r].error =
                    IF HeaderTokens(r)[1] = DEV_SERVER_TOKEN
                    THEN DevServerRemoved ELSE MissingAccessToken

\* a login alone and a user id alone
C13_Witness ==
    \E r1, r2 \in Requests :
        /\ HeaderTokens(r1) = << <<"a">> >>
        /\ HeaderTokens(r2) = << <<"1">> >>
        /\ req[r1].error = MissingAccessToken
        /\ req[r2].error = MissingAccessToken

\* C16: a request sends at most one GET to the authority and is over once
\* that call has failed; a request with a github login, and a request
\* rejected for a missing header, "dev-server-token" or a missing token,
\* sends none.
C16_OneOutboundCall ==
    \A r \in Requests :
        /\ req[r].http_calls <= 1
        /\ req[r].authority \in VerificationFailures
              => (Done(r) /\ req[r].http_calls = 1)
        /\ req[r].pc \in {"send", "json"} => req[r].http_calls = 1
        /\ ( \/ Len(HeaderTokens(r)) < 2
             \/ HeaderTokens(r)[1] = DEV_SERVER_TOKEN
             \/ ~parse_i32(HeaderTokens(r)[1]).ok )
              => req[r].http_calls = 0

\* one request met a network error after its one call, another resolved a
\* github login without any
C16_Witness ==
    \E r1, r2 \in Requests :
        /\ Rejected(r1) /\ req[r1].authority = "network_error"
        /\ req[r1].http_calls = 1
        /\ Succeeded(r2) /\ OnLoginPath(r2) /\ req[r2].http_calls = 0

BigLogin == <<"2","1","4","7","4","8","3","6","4","8">>

\* C17: the first token alone picks the path of a header with two tokens:
\* when it parses as an i32 the request goes to the authority with that id
\* and never looks up or creates a user by login, the valid shared secret
\* notwithstanding; any other first token never reaches the authority.
C17_SubjectPicksPath ==
    \A r \in Requests :
        (Len(HeaderTokens(r)) >= 2 /\ HeaderTokens(r)[1] # DEV_SERVER_TOKEN)
        => IF parse_i32(HeaderTokens(r)[1]).ok
           THEN /\ req[r].http_calls = 1
                /\ req[r].claimed_id = parse_i32(HeaderTokens(r)[1]).val
                /\ req[r].db_writes = 0
                /\ req[r].github_login = <<>>
                /\ req[r].pc \in {"send", "json", "get_user_by_id",
                                  "next_run", "done"}
                /\ req[r].principal # NoUser => req[r].authority = "verified"
           ELSE /\ req[r].http_calls = 0
                /\ req[r].authority = ""
                /\ req[r].pc \notin {"send", "json", "get_user_by_id"}

\* "2" with the valid shared secret went to the authority and created
\* nothing; "2147483648", which is no i32, was resolved as a github login
C17_Witness ==
    \E r1, r2 \in Requests :
        /\ HeaderTokens(r1) = << <<"2">>, ValidSecret >>
        /\ Done(r1) /\ req[r1].http_calls = 1 /\ req[r1].db_writes = 0
        /\ HeaderTokens(r2) = << BigLogin, ValidSecret >>
        /\ Succeeded(r2) /\ req[r2].db_writes = 1
        /\ req[r2].principal.github_login = BigLogin

\* C18: every row that a request has inserted is a lowercase, valid github
\* login that is no i32, with admin false and github_user_id equal to
\* synthetic_github_user_id of the login; no step removes or alters a row.
C18_InsertedRows ==
    /\ [](\A u \in users :
            u.id >= FirstFreeId
                => /\ ~HasUppercase(u.github_login)
                   /\ is_valid_github_login(u.github_login)
                   /\ ~parse_i32(u.github_login).ok
                   /\ u.admin = FALSE
                   /\ u.github_user_id
                        = synthetic_github_user_id(u.github_login)
                   /\ u.github_login \in db_logins)
    /\ [][users \subseteq users']_vars

\* two rows were inserted next to the one that was there
C18_Witness ==
    /\ Bob \in users
    /\ Cardinality({u \in users : u.id >= FirstFreeId}) = 2

\* C19: when every awaited call returns, a request that has arrived ends,
\* with one outcome that no later step changes: either success after one
\* run of the next layer, or one rejection; on the way it makes at most two
\* lookups and one create.
C19_Terminates ==
    /\ [](\A r \in Requests :
            /\ req[r].db_reads <= 2
            /\ req[r].db_writes <= 1
            /\ Done(r) => \/ (req[r].error = NoError /\ req[r].next_runs = 1)
                          \/ (req[r].error # NoError /\ req[r].next_runs = 0))
    /\ [][\A r \in Requests : Done(r) => req'[r] = req[r]]_vars
    /\ \A r \in Requests : (req[r].pc # "idle") ~> Done(r)

\* a request that went through lookup, create and second lookup has ended
C19_Witness ==
    \E r \in Requests :
        /\ Succeeded(r)
        /\ req[r].db_reads = 2
        /\ req[r].db_writes = 1

\* C14: is_valid_github_login is true exactly for the strings of 1 to 39
\* characters whose first character is an ASCII letter or digit and whose
\* other characters are ASCII letters, digits or hyphens; so it is false for
\* the empty string, for 40 characters and more, for a leading hyphen, and
\* for a string with a space or an underscore.
C14_LoginValidator ==
    probe.fn = "is_valid_github_login" =>
        LET s == probe.text
        IN  /\ probe.flag =
                 ( /\ Len(s) >= 1
                   /\ Len(s) <= 39
                   /\ IsAsciiAlphanumeric(s[1])
                   /\ \A i \in 2..Len(s) :
                        IsAsciiAlphanumeric(s[i]) \/ s[i] = "-" )
            /\ s = <<>> => ~probe.flag
            /\ Len(s) >= 40 => ~probe.flag
            /\ (s # <<>> /\ s[1] = "-") => ~probe.flag
            /\ (\E i \in DOMAIN s : s[i] \in {" ", "_"}) => ~probe.flag

\* a login of exactly 39 characters with an inner hyphen is accepted
C14_Witness ==
    /\ probe.fn = "is_valid_github_login"
    /\ Len(probe.text) = 39
    /\ probe.text[39] = "-"
    /\ probe.flag

\* C15: the synthetic id is the first four digest bytes read big-endian
\* with the top bit dropped, or 1 when that number is 0; it lies between 1
\* and 2^31 - 1.
C15_SyntheticIdRange ==
    probe.fn = "synthetic_github_user_id" =>
        LET b == probe.bytes
            value == (b[1] % 128) * 16777216 + b[2] * 65536 + b[3] * 256 + b[4]
        IN  /\ probe.id = (IF value = 0 THEN 1 ELSE value)
            /\ probe.id = 1 <=> value \in {0, 1}
            /\ probe.id >= 1
            /\ probe.id <= MaxI32

\* a digest that starts 80 00 00 00: only the sign bit is set, the id is 1
C15_Witness ==
    /\ probe.fn = "synthetic_github_user_id"
    /\ SubSeq(probe.bytes, 1, 4) = <<128, 0, 0, 0>>
    /\ probe.id = 1

IsPrefixOf(p, s) == Len(p) <= Len(s) /\ SubSeq(s, 1, Len(p)) = p

\* the offsets at which the pattern occurs in s
Occurrences(s, pattern) ==
    {i \in 0..Len(s) :
        /\ i + Len(pattern) <= Len(s)
        /\ \A k \in 1..Len(pattern) : s[i + k] = pattern[k]}

EndTokenOffsets(s) ==
    UNION {Occurrences(s, end_tokens[k]) : k \in DOMAIN end_tokens}

\* C20: clean_completion returns the prefix of its argument that stops at
\* the first offset where one of the end tokens occurs, the whole argument
\* when none occurs; the result holds no end token, and cleaning it again
\* returns it unchanged.
C20_CleanCompletion ==
    probe.fn = "clean_completion" =>
        /\ IsPrefixOf(probe.out, probe.text)
        /\ EndTokenOffsets(probe.out) = {}
        /\ \A i \in EndTokenOffsets(probe.text) : Len(probe.out) <= i
        /\ Len(probe.out) \in EndTokenOffsets(probe.text) \cup {Len(probe.text)}
        /\ probe.again = probe.out

\* "E>x<PRE>" then "<|fim_pad|>": the token that is later in the list
\* occurs first in the text
C20_Witness ==
    /\ probe.fn = "clean_completion"
    /\ probe.text = <<"E", ">", "<", "P", "R", "E", ">",
                      "<", "|", "f", "i", "m", "_", "p", "a", "d", "|", ">">>
    /\ probe.out = <<"E", ">">>

====
